---- MODULE Spec2Model ----
(***************************************************************************)
(* Model of src/app.py (quantum-netstat): the network test cycle started   *)
(* by the "Run Real Network Test" button, the network_tests table, the     *)
(* parsing of the completion text into normalization factors and the       *)
(* four-wire circuit.                                                      *)
(*                                                                         *)
(* Conventions of the model                                                *)
(*  - Every button press creates one asyncio task (a "cycle").  A cycle    *)
(*    runs atomically between two await points; cycles interleave only at  *)
(*    await points.  The event loop is taken to run the tasks that         *)
(*    ensure_future creates.                                               *)
(*  - An external call (speedtest, httpx, aiosqlite) either returns or     *)
(*    raises; the choice is nondeterministic.                              *)
(*  - Metrics are integers.  An angle is counted in quarter turns          *)
(*    (multiples of pi/2); the metric and factor values of the model are   *)
(*    chosen so that pi * metric / factor is a whole number of quarter     *)
(*    turns.  Amplitudes are exact: the pair [a, b] is the real number     *)
(*    (a + b / sqrt 2) / 4.  Probabilities are counted in sixteenths.      *)
(*  - A text is a sequence of tokens; a decimal digit is one token.        *)
(***************************************************************************)
EXTENDS Integers, Sequences, FiniteSets, TLC

VARIABLES task, presses, table_exists, network_tests, row_cycle,
          clock_events, ui, fetched, app_running, sim_args, sim_out

vars == <<task, presses, table_exists, network_tests, row_cycle,
          clock_events, ui, fetched, app_running, sim_args, sim_out>>

\* Number of button presses the model follows.
MaxCycles == 2

Cycles == 1..MaxCycles

-----------------------------------------------------------------------------
(* Texts and parse_normalization_response                                  *)

\* The list `factors` of parse_normalization_response, in its order.
FactorNames == <<"download_speed", "upload_speed", "ping", "jitter">>

FactorSet == {FactorNames[i] : i \in 1..Len(FactorNames)}

\* The default of a factor that the text does not give.
DefaultFactor == 100

DefaultFactors == [f \in FactorSet |-> DefaultFactor]

Digits == <<"0", "1", "2", "3", "4", "5", "6", "7", "8", "9">>

IsDigit(tok) == \E d \in 1..10 : Digits[d] = tok

DigitValue(tok) == (CHOOSE d \in 1..10 : Digits[d] = tok) - 1

\* The text the completion call returns on a status other than 200.
ErrorText == <<"Error", " ", "in", " ", "analysis.">>

\* text[i..] starts with "<factor>: " followed by at least one digit.
MatchesAt(text, factor, i) ==
    /\ i + 3 <= Len(text)
    /\ text[i] = factor
    /\ text[i + 1] = ":"
    /\ text[i + 2] = " "
    /\ IsDigit(text[i + 3])

\* End of the longest run of digits that starts at position i (greedy \d+).
RECURSIVE DigitRunEnd(_, _)
DigitRunEnd(text, i) ==
    IF i + 1 <= Len(text) /\ IsDigit(text[i + 1])
    THEN DigitRunEnd(text, i + 1)
    ELSE i

\* int() of the digits text[i..j].
RECURSIVE IntOf(_, _, _)
IntOf(text, i, j) ==
    IF j < i THEN 0
    ELSE 10 * IntOf(text, i, j - 1) + DigitValue(text[j])

\* re.search(f"{factor}: (\d+)", response): the leftmost match, or none.
FactorOf(text, factor) ==
    LET hits == {i \in 1..Len(text) : MatchesAt(text, factor, i)}
    IN  IF hits = {}
        THEN DefaultFactor
        ELSE LET i == CHOOSE h \in hits : \A g \in hits : h <= g
             IN  IntOf(text, i + 3, DigitRunEnd(text, i + 3))

parse_normalization_response(response) ==
    [f \in FactorSet |-> FactorOf(response, f)]

-----------------------------------------------------------------------------
(* The circuit                                                             *)

Wires == 0..3

Basis == 0..15

Pow2(n) == IF n = 0 THEN 1 ELSE IF n = 1 THEN 2 ELSE IF n = 2 THEN 4 ELSE 8

\* Value of wire w in basis index k: wire 0 is the leftmost (most
\* significant) bit of the index, as qml.probs orders the basis states.
WireBit(k, w) == (k \div Pow2(3 - w)) % 2

FlipWire(k, w) ==
    IF WireBit(k, w) = 0 THEN k + Pow2(3 - w) ELSE k - Pow2(3 - w)

\* Exact reals (a + b / sqrt 2) / 4.
Amp(a, b) == [a |-> a, b |-> b]

AmpAdd(x, y) == Amp(x.a + y.a, x.b + y.b)

AmpNeg(x) == Amp(0 - x.a, 0 - x.b)

\* Product of the coefficient c.a + c.b / sqrt 2 with the amplitude x.
AmpMul(c, x) == Amp(c.a * x.a + (c.b * x.b) \div 2, c.a * x.b + c.b * x.a)

\* cos and sin of h * pi / 4, the half angle of h quarter turns.
CosHalf(h) ==
    LET m == h % 8
    IN  IF m = 0 THEN Amp(1, 0)
        ELSE IF m = 1 \/ m = 7 THEN Amp(0, 1)
        ELSE IF m = 2 \/ m = 6 THEN Amp(0, 0)
        ELSE IF m = 3 \/ m = 5 THEN Amp(0, -1)
        ELSE Amp(-1, 0)

SinHalf(h) ==
    LET m == h % 8
    IN  IF m = 0 \/ m = 4 THEN Amp(0, 0)
        ELSE IF m = 1 \/ m = 3 THEN Amp(0, 1)
        ELSE IF m = 2 THEN Amp(1, 0)
        ELSE IF m = 5 \/ m = 7 THEN Amp(0, -1)
        ELSE Amp(-1, 0)

\* qml.RY(h quarter turns, wires=w) applied to the state psi.
RY(h, w, psi) ==
    [k \in Basis |->
        IF WireBit(k, w) = 0
        THEN AmpAdd(AmpMul(CosHalf(h), psi[k]),
                    AmpNeg(AmpMul(SinHalf(h), psi[FlipWire(k, w)])))
        ELSE AmpAdd(AmpMul(SinHalf(h), psi[FlipWire(k, w)]),
                    AmpMul(CosHalf(h), psi[k]))]

\* qml.CNOT(wires=[c, t]) applied to the state psi.
CNOT(c, t, psi) ==
    [k \in Basis |-> IF WireBit(k, c) = 1 THEN psi[FlipWire(k, t)] ELSE psi[k]]

\* The state |0000>.
ZeroState == [k \in Basis |-> IF k = 0 THEN Amp(4, 0) ELSE Amp(0, 0)]

\* Squared magnitude in sixteenths.  Every amplitude of this circuit is a
\* single power of 1 / sqrt 2, so a = 0 or b = 0 and the square is rational.
ProbOf(x) == (2 * x.a * x.a + x.b * x.b) \div 2

\* qml.probs(wires=[0, 1, 2, 3]): entry k + 1 of the sequence is the
\* probability of basis index k.
Probs(psi) == [i \in 1..16 |-> ProbOf(psi[i - 1])]

\* pi * (metric / factor) in quarter turns.
QuarterTurns(metric, factor) == (2 * metric) \div factor

\* The four rotation angles of the circuit, by wire.
Angles(download_speed, upload_speed, ping, jitter, nf) ==
    [w \in Wires |->
        IF w = 0 THEN QuarterTurns(download_speed, nf["download_speed"])
        ELSE IF w = 1 THEN QuarterTurns(upload_speed, nf["upload_speed"])
        ELSE IF w = 2 THEN 2 - QuarterTurns(ping, nf["ping"])
        ELSE QuarterTurns(jitter, nf["jitter"])]

\* The chain with its last two gates exchanged.
CircuitReordered(h) ==
    LET r0 == RY(h[0], 0, ZeroState)
        r1 == RY(h[1], 1, r0)
        r2 == RY(h[2], 2, r1)
        r3 == RY(h[3], 3, r2)
        c1 == CNOT(0, 1, r3)
        c2 == CNOT(2, 3, c1)
        c3 == CNOT(1, 2, c2)
    IN  Probs(c3)

\* The rotations followed by the chain CNOT 0->1, 1->2, 2->3.
Circuit(h) ==
    LET r0 == RY(h[0], 0, ZeroState)
        r1 == RY(h[1], 1, r0)
        r2 == RY(h[2], 2, r1)
        r3 == RY(h[3], 3, r2)
        c1 == CNOT(0, 1, r3)
        c2 == CNOT(1, 2, c1)
        c3 == CNOT(2, 3, c2)
    IN  Probs(c3)

\* The circuit tabulated once by its angles; a rotation by h quarter turns
\* has period 8 in h.
CircuitTable == [h \in [Wires -> 0..7] |-> Circuit(h)] @@ <<>>

\* Result of a call that raised ZeroDivisionError.
Raised == <<>>

quantum_circuit(download_speed, upload_speed, ping, jitter, nf) ==
    IF \E f \in FactorSet : nf[f] = 0
    THEN Raised
    ELSE LET h == Angles(download_speed, upload_speed, ping, jitter, nf)
         IN  CircuitTable[[w \in Wires |-> h[w] % 8]]

\* str(quantum_result), the text stored in the column quantum_result.
Str(q) == [kind |-> "text", of |-> q]

-----------------------------------------------------------------------------
(* Inputs of the model                                                     *)

\* What the speed test can measure (Mbps, Mbps, ms, ms).
Samples ==
    { [download_speed |-> 100, upload_speed |-> 50, ping |-> 50, jitter |-> 0],
      [download_speed |-> 50, upload_speed |-> 100, ping |-> 100, jitter |-> 50] }

\* Completion texts of a 200 response.
TextEmpty == <<>>

TextNoNumber == <<"ping", ":", " ", "-", "5">>

TextFactors ==
    <<"download_speed", ":", " ", "5", "0", "\n", "ping", ":", " ", "1", "0", "0">>

TextZero == <<"Use", " ", "ping", ":", " ", "0">>

\* Texts that give no factor at all.
MalformedTexts == {TextEmpty, TextNoNumber}

Responses == MalformedTexts \cup {TextFactors, TextZero}

-----------------------------------------------------------------------------
(* State                                                                   *)

NoMetric == -1

NoFactors == [f \in FactorSet |-> -1]

\* A task that has not been created: the locals of run_real_network_test.
IdleTask ==
    [pc |-> "idle",
     download_speed |-> NoMetric, upload_speed |-> NoMetric,
     ping |-> NoMetric, jitter |-> NoMetric,
     post_outcome |-> "none",
     normalization_response |-> <<>>,
     normalization_factors |-> NoFactors,
     quantum_result |-> <<>>,
     exc |-> "none"]

\* result_label and the three status lights before any result.
InitialUi ==
    [cycle |-> 0,
     download_speed |-> NoMetric, upload_speed |-> NoMetric,
     ping |-> NoMetric, jitter |-> NoMetric,
     quantum_result |-> Str(<<>>),
     speed_status |-> "none", reliability_status |-> "none",
     latency_status |-> "none"]

NoSimArgs ==
    [download_speed |-> NoMetric, upload_speed |-> NoMetric,
     ping |-> NoMetric, jitter |-> NoMetric, nf |-> NoFactors]

NoSimOut == [called |-> FALSE, result |-> <<>>]

\* A row that an earlier run of the program left in the database file.
EarlierRow ==
    [id |-> 1, download_speed |-> 100, upload_speed |-> 50, ping |-> 50,
     jitter |-> 0,
     quantum_result |-> Str(quantum_circuit(100, 50, 50, 0, DefaultFactors))]

\* The process has started and create_db has not run yet.  The database
\* file is new, or it holds the table of an earlier run.
Init ==
    /\ task = [c \in Cycles |-> IdleTask]
    /\ presses = 0
    /\ \/ /\ table_exists = FALSE
          /\ network_tests = <<>>
          /\ row_cycle = <<>>
       \/ /\ table_exists = TRUE
          /\ network_tests = <<EarlierRow>>
          /\ row_cycle = <<0>>
    /\ clock_events = <<>>
    /\ ui = InitialUi
    /\ fetched = <<>>
    /\ app_running = FALSE
    /\ sim_args = NoSimArgs
    /\ sim_out = NoSimOut

-----------------------------------------------------------------------------
(* The table network_tests                                                 *)

\* A create_db that makes the table anew and so drops the rows of an
\* existing table.
create_db_reset ==
    /\ ~app_running
    /\ table_exists' = TRUE
    /\ network_tests' = <<>>
    /\ row_cycle' = <<>>
    /\ app_running' = TRUE
    /\ UNCHANGED <<task, presses, clock_events, ui, fetched, sim_args, sim_out>>

\* The main block: asyncio.run(create_db()), CREATE TABLE IF NOT EXISTS and
\* commit, then MyApp().run().
create_db ==
    /\ ~app_running
    /\ table_exists' = TRUE
    /\ app_running' = TRUE
    /\ UNCHANGED <<task, presses, network_tests, row_cycle, clock_events, ui,
                   fetched, sim_args, sim_out>>

\* fetch_all_tests: SELECT * FROM network_tests.
fetch_all_tests ==
    /\ table_exists
    /\ fetched' = network_tests
    /\ UNCHANGED <<task, presses, table_exists, network_tests, row_cycle,
                   clock_events, ui, app_running, sim_args, sim_out>>

\* The id of INTEGER PRIMARY KEY for a row inserted without an id: one more
\* than the largest id of the table.
NextId ==
    IF network_tests = <<>>
    THEN 1
    ELSE 1 + (CHOOSE m \in {network_tests[i].id : i \in 1..Len(network_tests)} :
                 \A i \in 1..Len(network_tests) : network_tests[i].id <= m)

\* The highest-numbered cycle that holds captured metrics.
LatestCaptured ==
    CHOOSE c \in Cycles :
        /\ task[c].download_speed # NoMetric
        /\ \A d \in Cycles : task[d].download_speed # NoMetric => d <= c

\* The arguments of insert_network_test taken from the latest capture
\* instead of the cycle's own locals.
InsertArgsShared(c) ==
    [download_speed |-> task[LatestCaptured].download_speed,
     upload_speed |-> task[LatestCaptured].upload_speed,
     ping |-> task[LatestCaptured].ping,
     jitter |-> task[LatestCaptured].jitter,
     quantum_result |-> Str(task[c].quantum_result)]

\* The arguments cycle c passes to insert_network_test, with the str() of
\* the INSERT applied.
InsertArgs(c) ==
    [download_speed |-> task[c].download_speed,
     upload_speed |-> task[c].upload_speed,
     ping |-> task[c].ping,
     jitter |-> task[c].jitter,
     quantum_result |-> Str(task[c].quantum_result)]

\* The row that the INSERT of cycle c adds.
RowOf(c) ==
    [id |-> NextId,
     download_speed |-> InsertArgs(c).download_speed,
     upload_speed |-> InsertArgs(c).upload_speed,
     ping |-> InsertArgs(c).ping,
     jitter |-> InsertArgs(c).jitter,
     quantum_result |-> InsertArgs(c).quantum_result]

-----------------------------------------------------------------------------
(* The cycle: MyApp.run_real_network_test                                  *)

\* A cycle that has started and has not yet passed its insert.
InFlight(c) ==
    task[c].pc \in {"start", "await_server", "await_post", "await_insert"}

\* The task of cycle c has ended: its frame and locals are gone.  What is
\* kept is the record of how it ended.
Ended(c, how, outcome, what) ==
    [IdleTask EXCEPT !.pc = how, !.post_outcome = outcome, !.exc = what]

\* An exception leaves run_real_network_test and ends the task.
Fail(c, what) ==
    task' = [task EXCEPT ![c] = Ended(c, "failed", task[c].post_outcome, what)]

\* A press that is dropped while a cycle is in flight.
PressGuarded ==
    /\ app_running
    /\ presses < MaxCycles
    /\ presses' = presses + 1
    /\ IF \E c \in Cycles : InFlight(c)
       THEN UNCHANGED task
       ELSE task' = [task EXCEPT ![presses + 1].pc = "start"]
    /\ UNCHANGED <<table_exists, network_tests, row_cycle, clock_events, ui,
                   fetched, app_running, sim_args, sim_out>>

\* on_press of test_button: ensure_future(self.run_real_network_test()).
Press ==
    /\ app_running
    /\ presses < MaxCycles
    /\ presses' = presses + 1
    /\ task' = [task EXCEPT ![presses + 1].pc = "start"]
    /\ UNCHANGED <<table_exists, network_tests, row_cycle, clock_events, ui,
                   fetched, app_running, sim_args, sim_out>>

\* A failure of the probe that is swallowed: the cycle goes on.
BeginSwallow(c) ==
    /\ task[c].pc = "start"
    /\ \/ task' = [task EXCEPT ![c].pc = "await_server", ![c].exc = "probe"]
       \/ task' = [task EXCEPT ![c].pc = "await_server"]
    /\ UNCHANGED <<presses, table_exists, network_tests, row_cycle,
                   clock_events, ui, fetched, app_running, sim_args, sim_out>>

\* speedtest.Speedtest() and get_best_server(), up to the await.
Begin(c) ==
    /\ task[c].pc = "start"
    /\ \/ Fail(c, "probe")
       \/ task' = [task EXCEPT ![c].pc = "await_server"]
    /\ UNCHANGED <<presses, table_exists, network_tests, row_cycle,
                   clock_events, ui, fetched, app_running, sim_args, sim_out>>

\* download(), upload(), the four results, and the post of the completion
\* request up to its await.
Capture(c) ==
    /\ task[c].pc = "await_server"
    /\ \/ Fail(c, "probe")
       \/ \E s \in Samples :
            task' = [task EXCEPT ![c].pc = "await_post",
                                 ![c].download_speed = s.download_speed,
                                 ![c].upload_speed = s.upload_speed,
                                 ![c].ping = s.ping,
                                 ![c].jitter = s.jitter]
    /\ UNCHANGED <<presses, table_exists, network_tests, row_cycle,
                   clock_events, ui, fetched, app_running, sim_args, sim_out>>

\* A post that never returns.
PostHangs(c, kind) ==
    task' = [task EXCEPT ![c].pc = "hung", ![c].post_outcome = kind]

\* The post raises (transport failure or timeout), or the body of a 200
\* response has no choices[0].text.
PostRaises(c, kind) ==
    task' = [task EXCEPT ![c] = Ended(c, "failed", kind, kind)]

\* The rest of the step with a failure of the circuit ignored: the cycle
\* goes on to the insert with what it has.
EncodeUnchecked(c, kind, text) ==
    LET nf == parse_normalization_response(text)
        q == quantum_circuit(task[c].download_speed, task[c].upload_speed,
                             task[c].ping, task[c].jitter, nf)
    IN  task' = [task EXCEPT ![c].pc = "await_insert",
                             ![c].post_outcome = kind,
                             ![c].normalization_response = text,
                             ![c].normalization_factors = nf,
                             ![c].quantum_result = q,
                             ![c].exc = IF q = Raised THEN "ZeroDivisionError"
                                        ELSE "none"]

\* The text is returned: parse_normalization_response, quantum_circuit and
\* the call of insert_network_test up to its first await.
Encode(c, kind, text) ==
    LET nf == parse_normalization_response(text)
        q == quantum_circuit(task[c].download_speed, task[c].upload_speed,
                             task[c].ping, task[c].jitter, nf)
    IN  IF q = Raised
        THEN task' = [task EXCEPT ![c] =
                         [Ended(c, "failed", kind, "ZeroDivisionError")
                             EXCEPT !.normalization_factors = nf]]
        ELSE task' = [task EXCEPT ![c].pc = "await_insert",
                                  ![c].post_outcome = kind,
                                  ![c].normalization_response = text,
                                  ![c].normalization_factors = nf,
                                  ![c].quantum_result = q]

\* The completion request returns.
PostReturns(c) ==
    /\ task[c].pc = "await_post"
    /\ \/ \E t \in Responses : Encode(c, "ok200", t)
       \/ Encode(c, "non200", ErrorText)
       \/ PostRaises(c, "badbody")
       \/ PostRaises(c, "transport")
    /\ UNCHANGED <<presses, table_exists, network_tests, row_cycle,
                   clock_events, ui, fetched, app_running, sim_args, sim_out>>

\* A failed insert that is reported and after which the cycle goes on.
InsertContinue(c) ==
    /\ task[c].pc = "await_insert"
    /\ \/ /\ task' = [task EXCEPT ![c].pc = "inserted", ![c].exc = "storage"]
          /\ UNCHANGED <<network_tests, row_cycle>>
       \/ /\ network_tests' = Append(network_tests, RowOf(c))
          /\ row_cycle' = Append(row_cycle, c)
          /\ task' = [task EXCEPT ![c].pc = "inserted"]
    /\ UNCHANGED <<presses, table_exists, clock_events, ui, fetched,
                   app_running, sim_args, sim_out>>

\* insert_network_test: connect, INSERT, commit.
Insert(c) ==
    /\ task[c].pc = "await_insert"
    /\ \/ /\ Fail(c, "storage")
          /\ UNCHANGED <<network_tests, row_cycle>>
       \/ /\ network_tests' = Append(network_tests, RowOf(c))
          /\ row_cycle' = Append(row_cycle, c)
          /\ task' = [task EXCEPT ![c].pc = "inserted"]
    /\ UNCHANGED <<presses, table_exists, clock_events, ui, fetched,
                   app_running, sim_args, sim_out>>

\* Clock.schedule_once(lambda dt: self.update_ui(...), 0); the task ends.
Schedule(c) ==
    /\ task[c].pc = "inserted"
    /\ clock_events' = Append(clock_events,
           [cycle |-> c,
            download_speed |-> task[c].download_speed,
            upload_speed |-> task[c].upload_speed,
            ping |-> task[c].ping,
            jitter |-> task[c].jitter,
            quantum_result |-> task[c].quantum_result])
    /\ task' = [task EXCEPT ![c] = Ended(c, "done", "none", "none")]
    /\ UNCHANGED <<presses, table_exists, network_tests, row_cycle, ui,
                   fetched, app_running, sim_args, sim_out>>

-----------------------------------------------------------------------------
(* The user interface                                                      *)

\* update_status_lights: the three thresholds.
SpeedStatus(download_speed) ==
    IF download_speed > 500 THEN "good"
    ELSE IF download_speed > 100 THEN "average" ELSE "poor"

ReliabilityStatus(jitter) ==
    IF jitter < 5 THEN "good" ELSE IF jitter < 15 THEN "average" ELSE "poor"

LatencyStatus(ping) ==
    IF ping < 50 THEN "good" ELSE IF ping < 100 THEN "average" ELSE "poor"

\* The clock runs the oldest scheduled update_ui.
update_ui ==
    /\ clock_events # <<>>
    /\ LET e == Head(clock_events)
       IN  ui' = [cycle |-> e.cycle,
                  download_speed |-> e.download_speed,
                  upload_speed |-> e.upload_speed,
                  ping |-> e.ping,
                  jitter |-> e.jitter,
                  quantum_result |-> Str(e.quantum_result),
                  speed_status |-> SpeedStatus(e.download_speed),
                  reliability_status |-> ReliabilityStatus(e.jitter),
                  latency_status |-> LatencyStatus(e.ping)]
    /\ clock_events' = Tail(clock_events)
    /\ UNCHANGED <<task, presses, table_exists, network_tests, row_cycle,
                   fetched, app_running, sim_args, sim_out>>

-----------------------------------------------------------------------------
(* Specifications                                                          *)

\* The steps of the program as it runs: the main block, the button and the
\* cycles it starts, the clock.
AppNext ==
    \/ create_db
    \/ Press
    \/ \E c \in Cycles : Begin(c)
    \/ \E c \in Cycles : Capture(c)
    \/ \E c \in Cycles : PostReturns(c)
    \/ \E c \in Cycles : Insert(c)
    \/ \E c \in Cycles : Schedule(c)
    \/ update_ui

\* The program and a reader of the table (no code of the program calls
\* fetch_all_tests).
Next ==
    \/ AppNext
    \/ fetch_all_tests

Spec == Init /\ [][Next]_vars

\* The event loop runs every task that is ready, every awaited call returns
\* or raises, and the clock runs what is scheduled.
FairSpec ==
    /\ Init
    /\ [][AppNext]_vars
    /\ \A c \in Cycles :
          /\ WF_vars(Begin(c))
          /\ WF_vars(Capture(c))
          /\ WF_vars(PostReturns(c))
          /\ WF_vars(Insert(c))
          /\ WF_vars(Schedule(c))
    /\ WF_vars(update_ui)

\* Metric and factor values for calls of quantum_circuit on its own.
SimMetrics == {0, 50, 100}

SimFactors == {0, 50, 100}

SimInit ==
    /\ task = [c \in Cycles |-> IdleTask]
    /\ presses = 0
    /\ table_exists = FALSE
    /\ network_tests = <<>>
    /\ row_cycle = <<>>
    /\ clock_events = <<>>
    /\ ui = InitialUi
    /\ fetched = <<>>
    /\ app_running = FALSE
    /\ sim_args \in [download_speed : SimMetrics, upload_speed : SimMetrics,
                     ping : SimMetrics, jitter : SimMetrics,
                     nf : [FactorSet -> SimFactors]]
    /\ sim_out = NoSimOut

\* One call of quantum_circuit.
SimCall ==
    /\ ~sim_out.called
    /\ sim_out' = [called |-> TRUE,
                   result |-> quantum_circuit(sim_args.download_speed,
                                 sim_args.upload_speed, sim_args.ping,
                                 sim_args.jitter, sim_args.nf)]
    /\ UNCHANGED <<task, presses, table_exists, network_tests, row_cycle,
                   clock_events, ui, fetched, app_running, sim_args>>

SimNext == SimCall

SimSpec == SimInit /\ [][SimNext]_vars

-----------------------------------------------------------------------------
(* Properties                                                              *)

InsertedBy(c) == \E i \in 1..Len(row_cycle) : row_cycle[i] = c

ScheduledFor(c) ==
    \/ \E i \in 1..Len(clock_events) : clock_events[i].cycle = c
    \/ ui.cycle = c

FailureKinds == {"probe", "transport", "badbody", "ZeroDivisionError", "storage"}

RECURSIVE SumSeq(_)
SumSeq(q) == IF q = <<>> THEN 0 ELSE Head(q) + SumSeq(Tail(q))

\* A distribution over the 16 basis states with total probability 1.
CompleteDistribution(q) ==
    /\ Len(q) = 16
    /\ \A i \in 1..16 : q[i] >= 0
    /\ SumSeq(q) = 16

\* C1 as claimed: at most one cycle is in flight at a time, no two cycles
\* are ever both between their start and their insert.
C1_OneCycleInFlight == Cardinality({c \in Cycles : InFlight(c)}) <= 1

\* C1 amended: there is no in-flight guard; every press starts its own cycle
\* at once, whatever the state of the earlier cycles.
C1_EveryPressStartsACycle ==
    \A c \in Cycles : (c <= presses) <=> (task[c].pc # "idle")

\* Two cycles are between capture and insert at the same time.
C1_TwoInFlight ==
    /\ task[1].pc \in {"await_post", "await_insert"}
    /\ task[2].pc \in {"await_post", "await_insert"}

\* C2 as claimed: obtaining the factors never fails outward; a transport
\* failure, a 200 response without a usable body, a status other than 200 and
\* a text without factors all give the default factors and the cycle goes on.
C2_NeverFailsOutward ==
    \A c \in Cycles :
        /\ task[c].exc \notin {"transport", "badbody"}
        /\ ( /\ task[c].pc \in {"await_insert", "inserted"}
             /\ \/ task[c].post_outcome = "non200"
                \/ task[c].normalization_response \in MalformedTexts )
           => task[c].normalization_factors = DefaultFactors

C6_FactorsPositive ==
    \A c \in Cycles :
        task[c].normalization_factors # NoFactors =>
            \A f \in FactorSet : task[c].normalization_factors[f] > 0

\* The angles of the call under test.
SimAngles ==
    Angles(sim_args.download_speed, sim_args.upload_speed, sim_args.ping,
           sim_args.jitter, sim_args.nf)

\* The call has returned and each of its angles was 0 or pi.
SimZeroOrPi ==
    /\ sim_out.called
    /\ sim_out.result # Raised
    /\ \A w \in Wires : SimAngles[w] \in {0, 2}

Xor(x, y) == (x + y) % 2

\* Qubit values after flipping wire i when angle i is pi and then applying
\* CNOT 0->1, 1->2, 2->3 in that order.
ChainBits(h) ==
    LET q0 == IF h[0] = 2 THEN 1 ELSE 0
        q1 == Xor(IF h[1] = 2 THEN 1 ELSE 0, q0)
        q2 == Xor(IF h[2] = 2 THEN 1 ELSE 0, q1)
        q3 == Xor(IF h[3] = 2 THEN 1 ELSE 0, q2)
    IN  [w \in Wires |-> IF w = 0 THEN q0 ELSE IF w = 1 THEN q1
                         ELSE IF w = 2 THEN q2 ELSE q3]

\* Probability 1 at basis index k and 0 elsewhere.
PointAt(k) == [i \in 1..16 |-> IF i = k + 1 THEN 16 ELSE 0]

\* C7 as claimed: for angles in {0, pi} all probability is at the index whose
\* bit i, counted from the least significant bit, is the value of qubit i;
\* so [0,0,0,pi] gives index 8.
C7_PointAtLittleEndianIndex ==
    SimZeroOrPi =>
        LET q == ChainBits(SimAngles)
        IN  sim_out.result = PointAt(q[0] + 2 * q[1] + 4 * q[2] + 8 * q[3])

\* C7 amended: for angles in {0, pi} all probability is at the index whose
\* bit 3 - i is the value of qubit i (wire 0 is the most significant bit);
\* [0,0,0,0] gives index 0, [pi,0,0,0] index 15 and [0,0,0,pi] index 1.
C7_PointAtBigEndianIndex ==
    SimZeroOrPi =>
        LET q == ChainBits(SimAngles)
        IN  /\ sim_out.result = PointAt(8 * q[0] + 4 * q[1] + 2 * q[2] + q[3])
            /\ SimAngles = [w \in Wires |-> 0] => sim_out.result = PointAt(0)
            /\ SimAngles = [w \in Wires |-> IF w = 0 THEN 2 ELSE 0]
                  => sim_out.result = PointAt(15)
            /\ SimAngles = [w \in Wires |-> IF w = 3 THEN 2 ELSE 0]
                  => sim_out.result = PointAt(1)

\* The call with the angles [0,0,0,pi] has returned.
C7_LastWireFlipped ==
    /\ SimZeroOrPi
    /\ SimAngles = [w \in Wires |-> IF w = 3 THEN 2 ELSE 0]
    /\ sim_out.result[2] = 16

IsPrefix(s, t) ==
    /\ Len(s) <= Len(t)
    /\ \A i \in 1..Len(s) : s[i] = t[i]

\* C8: the ids of the rows are distinct, every insert gets an id greater than
\* all ids before it, and no step, create_db included, changes or removes a
\* row that is in the table.
C8_AppendOnlyIncreasingIds ==
    /\ [](\A i, j \in 1..Len(network_tests) :
            i < j => network_tests[i].id < network_tests[j].id)
    /\ [][IsPrefix(network_tests, network_tests')]_vars

\* create_db has run over the table of an earlier run, both cycles have
\* inserted, the second one first, and the table has been read.
C8_RowsOfTwoCyclesSeen ==
    /\ app_running
    /\ network_tests # <<>>
    /\ network_tests[1] = EarlierRow
    /\ row_cycle = <<0, 2, 1>>
    /\ Len(fetched) >= 2

PcOrder ==
    {<<"idle", "start">>, <<"start", "await_server">>,
     <<"await_server", "await_post">>, <<"await_post", "await_insert">>,
     <<"await_insert", "inserted">>, <<"inserted", "done">>,
     <<"start", "failed">>, <<"await_server", "failed">>,
     <<"await_post", "failed">>, <<"await_insert", "failed">>}

\* C9: a cycle takes its steps in the order capture, factors and encoding,
\* insert, delivery; it inserts only from the step after a complete
\* distribution was computed, and a cycle whose encoding failed has ended
\* without a row, so every row of a cycle holds a complete distribution.
C9_InsertOnlyAfterEncoding ==
    /\ [](\A i \in 1..Len(network_tests) :
            \E q \in {network_tests[i].quantum_result.of} :
                /\ network_tests[i].quantum_result = Str(q)
                /\ CompleteDistribution(q))
    /\ [](\A c \in Cycles :
            /\ task[c].exc = "ZeroDivisionError" =>
                  task[c].pc = "failed" /\ ~InsertedBy(c)
            /\ task[c].pc = "await_insert" =>
                  CompleteDistribution(task[c].quantum_result))
    /\ [][\A c \in Cycles :
            /\ task'[c].pc # task[c].pc => <<task[c].pc, task'[c].pc>> \in PcOrder
            /\ (InsertedBy(c)' /\ ~InsertedBy(c)) =>
                  task[c].pc = "await_insert" /\ task'[c].pc = "inserted"
            /\ (ScheduledFor(c)' /\ ~ScheduledFor(c)) =>
                  task[c].pc = "inserted" /\ task'[c].pc = "done"]_vars

\* The encoding of one cycle has failed and another cycle has inserted.
C9_EncodingFailureSeen ==
    \E c, d \in Cycles :
        /\ task[c].exc = "ZeroDivisionError"
        /\ task[c].pc = "failed"
        /\ InsertedBy(d)
        /\ task[d].pc = "done"

\* Row i holds the metrics m and the text of the distribution q.
RowHolds(i, m, q) ==
    /\ network_tests[i].download_speed = m.download_speed
    /\ network_tests[i].upload_speed = m.upload_speed
    /\ network_tests[i].ping = m.ping
    /\ network_tests[i].jitter = m.jitter
    /\ network_tests[i].quantum_result = Str(q)

\* C10: the row a cycle inserts holds the metrics of that cycle and the
\* distribution computed from those metrics and that cycle's factors; every
\* scheduled or shown result is that of a row its own cycle inserted.
C10_NoMixing ==
    /\ \A c \in Cycles :
          task[c].pc \in {"await_insert", "inserted"} =>
              task[c].quantum_result =
                  quantum_circuit(task[c].download_speed, task[c].upload_speed,
                                  task[c].ping, task[c].jitter,
                                  task[c].normalization_factors)
    /\ \A c \in Cycles :
          task[c].pc = "inserted" =>
              \E i \in 1..Len(network_tests) :
                  /\ row_cycle[i] = c
                  /\ RowHolds(i, task[c], task[c].quantum_result)
    /\ \A k \in 1..Len(clock_events) :
          \E i \in 1..Len(network_tests) :
              /\ row_cycle[i] = clock_events[k].cycle
              /\ RowHolds(i, clock_events[k], clock_events[k].quantum_result)
    /\ ui.cycle # 0 =>
          \E i \in 1..Len(network_tests) :
              /\ row_cycle[i] = ui.cycle
              /\ network_tests[i].download_speed = ui.download_speed
              /\ network_tests[i].upload_speed = ui.upload_speed
              /\ network_tests[i].ping = ui.ping
              /\ network_tests[i].jitter = ui.jitter
              /\ network_tests[i].quantum_result = ui.quantum_result

\* Two cycles with different metrics have interleaved: the later press
\* inserted first, and both results are scheduled.
C10_InterleavedCyclesSeen ==
    /\ Len(row_cycle) >= 2
    /\ \E i, j \in 1..Len(row_cycle) :
          /\ i < j
          /\ row_cycle[i] = 2
          /\ row_cycle[j] = 1
          /\ network_tests[i].download_speed # network_tests[j].download_speed
    /\ Len(clock_events) = 2

====
